---- MODULE Spec2Model ----
(***************************************************************************)
(* Model of the libusb-1.0 communication subdriver of NUT                  *)
(* (drivers/nut_libusb.c): open (device enumeration, matching, interface   *)
(* claim, HID/report descriptor discovery, acceptance callback), the       *)
(* transfer primitives and close.  The USB transport (libusb) and the      *)
(* caller-supplied matchers and callback are the environment: every result *)
(* they hand back is a nondeterministic input of the step that asks for it.*)
(***************************************************************************)
EXTENDS Integers, Sequences, FiniteSets, TLC

(* ------------------------------ bounds --------------------------------- *)
\* longest bus device list handed back by libusb_get_device_list()
MaxDevs == 2
\* longest matcher chain passed to open
MaxChain == 2
\* number of open calls in one run of the driver
MaxOpens == 2
\* turns of the extra-bytes scan followed before the scan is given up as hung
MaxScanTurns == 3

(* ------------------------- program constants --------------------------- *)
MAX_REPORT_SIZE == 6144
usb_if_num == 0
HID_DESC_SIZE == 9
INTERRUPT_EP == 129
CLAIM_RETRIES == 3
EATON_VENDORID == 1123
EATON_BCD_V202 == 514

\* libusb status codes used by the driver
LIBUSB_SUCCESS == 0
LIBUSB_ERROR_IO == -1
LIBUSB_ERROR_INVALID_PARAM == -2
LIBUSB_ERROR_ACCESS == -3
LIBUSB_ERROR_NOT_FOUND == -5
LIBUSB_ERROR_BUSY == -6
LIBUSB_ERROR_TIMEOUT == -7
LIBUSB_ERROR_PIPE == -9
\* libusb descriptor types
LIBUSB_DT_HID == 33
LIBUSB_DT_REPORT == 34

\* the NULL pointer: a NULL string and a NULL device handle
NULLSTR == << >>
NULLDEV == 0

(* --------------------------- the USB bus ------------------------------- *)
\* The devices that may sit on the bus.  Their DEVICE descriptors cover the four
\* combinations of (Eaton vendor id or not) x (release 2.02 or not).
Pool == 1..4

dev_desc(d) ==
    [ idVendor      |-> IF d \in {1, 2} THEN EATON_VENDORID ELSE 1309,
      idProduct     |-> 65440 + d,
      bcdDevice     |-> IF d \in {1, 3} THEN EATON_BCD_V202 ELSE 256,
      iManufacturer |-> IF d \in {1, 4} THEN 1 ELSE 0,
      iProduct      |-> IF d \in {2} THEN 2 ELSE 0,
      iSerialNumber |-> IF d \in {1, 3} THEN 3 ELSE 0 ]

\* libusb_get_bus_number(): the bus the device sits on
bus_number(d) == IF d \in {1, 2} THEN 1 ELSE 12

\* The string descriptor number idx of device d (what a successful
\* libusb_get_string_descriptor_ascii() copies into string[]).
StringOf(d, idx) == <<d, idx>>

\* sprintf(curDevice->Bus, "%03d", bus): three decimal digits
FormatBus(bus) == << (bus \div 100) % 10, (bus \div 10) % 10, bus % 10 >>

\* the 9-byte HID class descriptor announcing a report descriptor of len bytes
\* (wDescriptorLength, little-endian, in bytes 7 and 8)
HidDesc(len) == << HID_DESC_SIZE, LIBUSB_DT_HID, 16, 1, 0, 1, LIBUSB_DT_REPORT, len % 256, len \div 256 >>

\* report lengths a device may announce: a small one, the buffer capacity, one
\* byte more than the capacity
LenSamples == { 3, MAX_REPORT_SIZE, MAX_REPORT_SIZE + 1 }

(* ------------------------------ state ---------------------------------- *)
VARIABLES
    cfg,        \* the build: which #if branches were compiled in (linux, detach)
    pc,         \* where the driver is: "idle" between calls, a label inside open
    udevp,      \* the caller's handle slot (*udevp)
    live,       \* the device handles libusb currently holds open
    usbInit,    \* libusb_init() calls not yet matched by libusb_exit()
    opens,      \* number of open calls made so far
    curDevice,  \* the caller's identity record (USBDevice_t)
    call,       \* arguments and function-level locals of the running open call
    cand,       \* locals of the current iteration of open's device loop
    hist,       \* what the transport was asked during the current iteration
    result,     \* << >> or <<return value of the last finished open call>>
    xfer,       \* the last transfer primitive call and what it returned
    fn          \* locals of the helper function open is inside of

vars == << cfg, pc, udevp, live, usbInit, opens, curDevice, call, cand, hist, result, xfer, fn >>

\* memset(curDevice, '\0', sizeof(*curDevice))
ZeroDevice ==
    [ Vendor |-> NULLSTR, Product |-> NULLSTR, Serial |-> NULLSTR, Bus |-> NULLSTR,
      VendorID |-> 0, ProductID |-> 0, bcdDevice |-> 0 ]

\* declarations at the head of the device loop's body
CandInit ==
    [ device |-> 0, udev |-> NULLDEV, m |-> 1, ret |-> 0,
      hid_desc_index |-> 0,
      got_rdlen1 |-> FALSE, rdlen1 |-> 0, got_rdlen2 |-> FALSE, rdlen2 |-> 0,
      rdlen |-> 0, extra |-> << >>, i |-> 0, turns |-> 0 ]

HistInit ==
    [ matchRets |-> << >>, verdict |-> "none", claimed |-> FALSE, skip |-> "none",
      hidRequest |-> << >>, method2 |-> "none",
      fetch |-> << >>, fetchRet |-> << >>,
      cbLen |-> << >>, cbRet |-> << >> ]

\* entryLive: the handles that were open when the body of open started
CallInit ==
    [ matcherLen |-> 0, hasCallback |-> FALSE, devcount |-> 0,
      devnum |-> 0, listGets |-> 0, listFrees |-> 0, entryLive |-> {} ]

\* locals of nut_usb_claim_interface and nut_usb_set_altinterface, and what
\* they asked of the transport; gone when the function returns
FnInit == [ retries |-> 0, claims |-> 0, detaches |-> 0, lastClaim |-> 0,
            option |-> FALSE, altRequests |-> 0 ]

XferInit == [ op |-> "none", udev |-> NULLDEV, ret |-> 0, clearHalt |-> << >>,
              clearRet |-> << >>, result |-> 0 ]

Builds == [ linux : BOOLEAN, detach : BOOLEAN ]

Init ==
    /\ cfg \in Builds
    /\ pc = "idle"
    /\ udevp = NULLDEV
    /\ live = {}
    /\ usbInit = 0
    /\ opens = 0
    /\ curDevice = ZeroDevice
    /\ call = CallInit
    /\ cand = CandInit
    /\ hist = HistInit
    /\ result = << >>
    /\ xfer = XferInit
    /\ fn = FnInit

(* ------------------- open: entry and device enumeration ---------------- *)
\* libusb_exit(NULL) on the count of outstanding initializations
libusb_exit(n) == IF n > 0 THEN n - 1 ELSE 0

\* libusb_close that leaves the handle open
libusb_close_Leak(h, handles) == handles

\* libusb_close(h) on the set of open handles
libusb_close(h, handles) == handles \ {h}

\* nut_libusb_open, libusb base init and the non-Linux close of a handle the
\* caller still holds.  Closing a handle that is no longer open is undefined:
\* the process may crash or go on.
OpenEnter ==
    /\ pc = "idle"
    /\ opens < MaxOpens
    /\ \E n \in 0..MaxChain, cb \in BOOLEAN, initOk \in BOOLEAN, crash \in BOOLEAN :
        /\ crash => (initOk /\ ~cfg.linux /\ udevp # NULLDEV /\ udevp \notin live)
        /\ opens' = opens + 1
        /\ call' = [ CallInit EXCEPT !.matcherLen = n, !.hasCallback = cb,
                                     !.entryLive =
                                        IF initOk /\ ~cfg.linux /\ udevp # NULLDEV
                                          THEN libusb_close(udevp, live) ELSE live ]
        /\ cand' = CandInit
        /\ hist' = HistInit
        /\ result' = << >>
        /\ xfer' = XferInit
        /\ IF ~initOk
             THEN /\ pc' = "exited"
                  /\ usbInit' = libusb_exit(usbInit)
                  /\ UNCHANGED live
             ELSE /\ usbInit' = usbInit + 1
                  /\ live' = IF ~cfg.linux /\ udevp # NULLDEV
                               THEN libusb_close(udevp, live) ELSE live
                  /\ pc' = IF crash THEN "exited" ELSE "getlist"
    /\ UNCHANGED << cfg, udevp, curDevice, fn >>

\* devcount = libusb_get_device_list(NULL, &devlist): a list of up to MaxDevs
\* devices, or a negative count.  The entries of the list are drawn when the
\* loop reads them (each is read once).
OpenGetList ==
    /\ pc = "getlist"
    /\ \/ \E n \in 0..MaxDevs :
            call' = [ call EXCEPT !.devcount = n, !.listGets = @ + 1 ]
       \/ call' = [ call EXCEPT !.devcount = LIBUSB_ERROR_IO ]
    /\ pc' = "loop"
    /\ UNCHANGED << cfg, udevp, live, usbInit, opens, curDevice, cand, hist, result, xfer, fn >>

\* for (devnum = 0; devnum < devcount; devnum++): the loop test, and
\* device = devlist[devnum] with the declarations of a new iteration
LoopTest ==
    /\ pc = "loop"
    /\ IF call.devnum < call.devcount
         THEN /\ \E d \in Pool : cand' = [ CandInit EXCEPT !.device = d ]
              /\ hist' = HistInit
              /\ pc' = "get_device_descriptor"
         ELSE /\ pc' = "exhausted"
              /\ UNCHANGED << cand, hist >>
    /\ UNCHANGED << cfg, udevp, live, usbInit, opens, curDevice, call, result, xfer, fn >>

\* Continue that does not advance
Continue_Stay(c) == c

\* `continue`: on to the next device of the list (the locals of the loop's
\* body go out of scope)
Continue(c) == [ c EXCEPT !.devnum = @ + 1 ]

\* libusb_get_device_descriptor(); on failure the device is passed over
GetDeviceDescriptor ==
    /\ pc = "get_device_descriptor"
    /\ \E ok \in BOOLEAN :
        IF ok THEN /\ pc' = "open_device"
                   /\ UNCHANGED << call, cand, hist >>
              ELSE /\ pc' = "loop"
                   /\ call' = Continue(call)
                   /\ cand' = CandInit
                   /\ hist' = HistInit
    /\ UNCHANGED << cfg, udevp, live, usbInit, opens, curDevice, result, xfer, fn >>

\* The handle libusb_open() creates: handles are numbered from 1, and a new
\* one takes the lowest number no open handle has (as an allocator reuses the
\* address of a closed handle).
NewHandle == CHOOSE h \in 1..(Cardinality(live) + 1) :
                 h \notin live /\ \A k \in 1..(h - 1) : k \in live

\* ret = libusb_open(device, udevp); udev = *udevp
OpenDevice ==
    /\ pc = "open_device"
    /\ \E ok \in BOOLEAN :
        IF ok THEN /\ udevp' = NewHandle
                   /\ live' = live \cup {NewHandle}
                   /\ cand' = [ cand EXCEPT !.udev = NewHandle ]
                   /\ pc' = "identity"
                   /\ UNCHANGED << call, hist >>
              ELSE /\ pc' = "loop"
                   /\ call' = Continue(call)
                   /\ cand' = CandInit
                   /\ hist' = HistInit
                   /\ UNCHANGED << udevp, live >>
    /\ UNCHANGED << cfg, usbInit, opens, curDevice, result, xfer, fn >>

(* ---------------------- open: identity of the candidate ---------------- *)
\* ClearIdentity without the memset: the old fields stay
ClearIdentity_Keep(rec) == rec

\* free(curDevice->Vendor) ... memset(curDevice, '\0', sizeof(*curDevice))
ClearIdentity(rec) == ZeroDevice

\* What the three string reads and the four allocations may do: the read
\* succeeds ("ok": ret > 0 and strdup() works), the read yields nothing ("none":
\* ret <= 0) or the allocation fails ("oom").
IdentityOutcomes ==
    [ Bus : {"ok", "oom"}, Vendor : {"ok", "none", "oom"},
      Product : {"ok", "none", "oom"}, Serial : {"ok", "none", "oom"} ]

\* one `if (dev_desc.iX) { ret = libusb_get_string_descriptor_ascii(...);
\* if (ret > 0 && (curDevice->X = strdup(string)) == NULL) goto oom_error; }`
\* st is [dev, oom]; nothing more is done once oom_error was taken
ReadString(st, field, d, idx, outcome) ==
    IF st.oom \/ idx = 0 \/ outcome = "none" THEN st
    ELSE IF outcome = "oom" THEN [ st EXCEPT !.oom = TRUE ]
    ELSE [ st EXCEPT !.dev = [ @ EXCEPT ![field] = StringOf(d, idx) ] ]

\* the identity block of the loop body, for device d under outcomes o
ReadIdentity(rec, d, o) ==
    LET desc == dev_desc(d)
        cleared == ClearIdentity(rec)
        s0 == IF o.Bus = "oom"
                THEN [ dev |-> cleared, oom |-> TRUE ]
                ELSE [ dev |-> [ cleared EXCEPT !.Bus = FormatBus(bus_number(d)),
                                                !.VendorID = desc.idVendor,
                                                !.ProductID = desc.idProduct,
                                                !.bcdDevice = desc.bcdDevice ],
                       oom |-> FALSE ]
        s1 == ReadString(s0, "Vendor", d, desc.iManufacturer, o.Vendor)
        s2 == ReadString(s1, "Product", d, desc.iProduct, o.Product)
    IN  ReadString(s2, "Serial", d, desc.iSerialNumber, o.Serial)

CollectIdentity ==
    /\ pc = "identity"
    /\ \E o \in IdentityOutcomes :
        LET st == ReadIdentity(curDevice, cand.device, o) IN
        /\ curDevice' = st.dev
        /\ pc' = IF st.oom THEN "oom_error" ELSE "match"
    /\ UNCHANGED << cfg, udevp, live, usbInit, opens, call, cand, hist, result, xfer, fn >>

\* oom_error: libusb_free_device_list(devlist, 1); fatal_with_errno(...)
OomError ==
    /\ pc = "oom_error"
    /\ call' = [ call EXCEPT !.listFrees = @ + 1 ]
    /\ pc' = "exited"
    /\ UNCHANGED << cfg, udevp, live, usbInit, opens, curDevice, cand, hist, result, xfer, fn >>

(* --------------------------- open: matching ---------------------------- *)
\* what a matcher's match_function may return: 1 match, 0 no match,
\* -1 error (errno set), -2 unspecified error
MatchRets == { 1, 0, -1, -2 }

\* MatchOutcome without its last branch: an unspecified error (-2) goes on
MatchOutcome_NoUnspecified(ret) ==
    IF ret = 0 THEN "skip"
    ELSE IF ret = -1 THEN "fatal"
    ELSE "next"

\* MatchOutcome taking a hard error (-1) for a device that does not match
MatchOutcome_HardErrorSkips(ret) ==
    IF ret = 0 THEN "skip"
    ELSE IF ret = -1 THEN "skip"
    ELSE IF ret = -2 THEN "skip"
    ELSE "next"

\* the if/else-if chain on ret inside the matcher loop
MatchOutcome(ret) ==
    IF ret = 0 THEN "skip"
    ELSE IF ret = -1 THEN "fatal"
    ELSE IF ret = -2 THEN "skip"
    ELSE "next"

\* one turn of `for (m = matcher; m; m = m->next)`: node m is evaluated
MatchNode ==
    /\ pc = "match"
    /\ cand.m <= call.matcherLen
    /\ \E r \in MatchRets :
        LET out == MatchOutcome(r) IN
        /\ cand' = [ cand EXCEPT !.m = IF out = "next" THEN @ + 1 ELSE @ ]
        /\ hist' = [ hist EXCEPT !.matchRets = Append(@, r),
                                 !.verdict = IF out = "next" THEN @ ELSE out,
                                 !.skip = IF out = "skip" THEN "nomatch" ELSE @ ]
        /\ call' = [ call EXCEPT !.listFrees = IF out = "fatal" THEN @ + 1 ELSE @ ]
        /\ pc' = CASE out = "skip"  -> "next_device"
                   [] out = "fatal" -> "exited"
                   [] OTHER         -> "match"
    /\ UNCHANGED << cfg, udevp, live, usbInit, opens, curDevice, result, xfer, fn >>

\* the matcher loop ends with m == NULL: "Device matches"
MatchDone ==
    /\ pc = "match"
    /\ cand.m > call.matcherLen
    /\ hist' = [ hist EXCEPT !.verdict = "pass" ]
    /\ pc' = "claim"
    /\ UNCHANGED << cfg, udevp, live, usbInit, opens, curDevice, call, cand, result, xfer, fn >>

(* ---------------------- nut_usb_claim_interface ------------------------ *)
\* The auto-detach preamble (compiled in when libusb has both calls): when the
\* kernel driver is active, libusb is asked to detach it on claim; the results
\* are only logged.  Then retries = 3.
ClaimEnter ==
    /\ pc = "claim"
    /\ \E haveAuto \in BOOLEAN, active \in {1, 0, LIBUSB_ERROR_IO},
          flagRet \in {LIBUSB_SUCCESS, LIBUSB_ERROR_IO} :
        fn' = [ FnInit EXCEPT !.retries = IF cfg.detach THEN CLAIM_RETRIES ELSE 0 ]
    /\ pc' = "claim_interface"
    /\ UNCHANGED << cfg, udevp, live, usbInit, opens, curDevice, call, cand, hist, result, xfer >>

ClaimRets == { LIBUSB_SUCCESS, LIBUSB_ERROR_BUSY, LIBUSB_ERROR_ACCESS }
DetachRets == { LIBUSB_SUCCESS, LIBUSB_ERROR_NOT_FOUND, LIBUSB_ERROR_INVALID_PARAM }

\* RetriesExhausted giving up one attempt late
RetriesExhausted_Late(retries) == retries < 0

\* `if (retries-- == 0) return ret;`: TRUE when the function returns here
RetriesExhausted(retries) == retries = 0

\* ret = libusb_claim_interface(udev, usb_if_num) and what follows it: return
\* LIBUSB_SUCCESS, return the error, or go on to detach the kernel driver
ClaimInterface ==
    /\ pc = "claim_interface"
    /\ \E r \in ClaimRets :
        IF r = LIBUSB_SUCCESS
          THEN /\ fn' = [ fn EXCEPT !.claims = @ + 1, !.lastClaim = r ]
               /\ cand' = [ cand EXCEPT !.ret = LIBUSB_SUCCESS ]
               /\ pc' = "claim_returned"
          ELSE IF ~cfg.detach
          THEN /\ fn' = [ fn EXCEPT !.claims = @ + 1, !.lastClaim = r ]
               /\ cand' = [ cand EXCEPT !.ret = r ]
               /\ pc' = "claim_returned"
          ELSE IF RetriesExhausted(fn.retries)
          THEN /\ fn' = [ fn EXCEPT !.claims = @ + 1, !.lastClaim = r, !.retries = @ - 1 ]
               /\ cand' = [ cand EXCEPT !.ret = r ]
               /\ pc' = "claim_returned"
          ELSE /\ fn' = [ fn EXCEPT !.claims = @ + 1, !.lastClaim = r, !.retries = @ - 1 ]
               /\ cand' = [ cand EXCEPT !.ret = r ]
               /\ pc' = "detach_kernel_driver"
    /\ UNCHANGED << cfg, udevp, live, usbInit, opens, curDevice, call, hist, result, xfer >>

\* ret = libusb_detach_kernel_driver(udev, usb_if_num); every result is only logged
DetachKernelDriver ==
    /\ pc = "detach_kernel_driver"
    /\ \E r \in DetachRets :
        /\ cand' = [ cand EXCEPT !.ret = r ]
        /\ fn' = [ fn EXCEPT !.detaches = @ + 1 ]
    /\ pc' = "claim_interface"
    /\ UNCHANGED << cfg, udevp, live, usbInit, opens, curDevice, call, hist, result, xfer >>

\* back in open with ret, the value nut_usb_claim_interface returned: a failed
\* claim is fatal
ClaimReturned ==
    /\ pc = "claim_returned"
    /\ IF cand.ret # LIBUSB_SUCCESS
         THEN /\ call' = [ call EXCEPT !.listFrees = @ + 1 ]
              /\ pc' = "exited"
              /\ UNCHANGED hist
         ELSE /\ pc' = "set_altinterface"
              /\ hist' = [ hist EXCEPT !.claimed = TRUE ]
              /\ UNCHANGED call
    /\ fn' = FnInit
    /\ UNCHANGED << cfg, udevp, live, usbInit, opens, curDevice, cand, result, xfer >>

(* --------------------- nut_usb_set_altinterface ------------------------ *)
\* testvar("usb_set_altinterface") tells whether the operator gave the option.
\* Without it nothing is asked of the device; with it one
\* libusb_set_interface_alt_setting() is issued and its result returned.
SetAltInterface ==
    /\ pc = "set_altinterface"
    /\ \E option \in BOOLEAN, r \in {LIBUSB_SUCCESS, LIBUSB_ERROR_IO} :
        IF ~option
          THEN /\ fn' = [ FnInit EXCEPT !.option = FALSE ]
               /\ cand' = [ cand EXCEPT !.ret = LIBUSB_SUCCESS ]
          ELSE /\ fn' = [ FnInit EXCEPT !.option = TRUE, !.altRequests = 1 ]
               /\ cand' = [ cand EXCEPT !.ret = r ]
    /\ pc' = "altinterface_returned"
    /\ UNCHANGED << cfg, udevp, live, usbInit, opens, curDevice, call, hist, result, xfer >>

\* AltInterfaceReturned that takes a failed request for fatal
AltInterfaceReturned_Fatal ==
    /\ pc = "altinterface_returned"
    /\ fn' = FnInit
    /\ cand' = [ cand EXCEPT !.ret = 0 ]
    /\ pc' = IF cand.ret # LIBUSB_SUCCESS THEN "exited" ELSE "callback_test"
    /\ UNCHANGED << cfg, udevp, live, usbInit, opens, curDevice, call, hist, result, xfer >>

\* back in open, which does not look at what nut_usb_set_altinterface returned
AltInterfaceReturned ==
    /\ pc = "altinterface_returned"
    /\ fn' = FnInit
    /\ cand' = [ cand EXCEPT !.ret = 0 ]
    /\ pc' = "callback_test"
    /\ UNCHANGED << cfg, udevp, live, usbInit, opens, curDevice, call, hist, result, xfer >>

\* `if (!callback) { libusb_free_device_list(devlist, 1); return LIBUSB_SUCCESS; }`
CallbackTest ==
    /\ pc = "callback_test"
    /\ IF ~call.hasCallback
         THEN /\ call' = [ call EXCEPT !.listFrees = @ + 1 ]
              /\ result' = << LIBUSB_SUCCESS >>
              /\ pc' = "return"
         ELSE /\ pc' = "hid_descriptor"
              /\ UNCHANGED << call, result >>
    /\ UNCHANGED << cfg, udevp, live, usbInit, opens, curDevice, cand, hist, xfer, fn >>

(* ------------------------ descriptor discovery ------------------------- *)
\* HidDescIndex without the Eaton special case
HidDescIndex_Zero(vid, bcd) == 0

\* hid_desc_index: 1 for the Eaton units with release 2.02, else 0
HidDescIndex(vid, bcd) ==
    IF vid = EATON_VENDORID /\ bcd = EATON_BCD_V202 THEN 1 ELSE 0

\* wValue of a GET_DESCRIPTOR request: (type << 8) + index
DescriptorValue(type, index) == type * 256 + index

\* desc[7] | (desc[8] << 8) of the descriptor that starts at offset i of bytes
ReportLength(bytes, i) == bytes[i + 8] + 256 * bytes[i + 9]

\* FIRST METHOD: the HID descriptor is asked for directly.  The transfer fails
\* (ret < 0), comes back short (ret < 9) or fills buf with 9 bytes.
GetHidDescriptor ==
    /\ pc = "hid_descriptor"
    /\ LET idx == HidDescIndex(curDevice.VendorID, curDevice.bcdDevice) IN
       \E ret \in {LIBUSB_ERROR_IO, 4, HID_DESC_SIZE}, len \in LenSamples :
        LET buf == HidDesc(len) IN
        /\ hist' = [ hist EXCEPT !.hidRequest = << DescriptorValue(LIBUSB_DT_HID, idx) >> ]
        /\ cand' = IF ret < 0 \/ ret < HID_DESC_SIZE
                     THEN [ cand EXCEPT !.hid_desc_index = idx ]
                     ELSE [ cand EXCEPT !.hid_desc_index = idx,
                                        !.got_rdlen1 = TRUE,
                                        !.rdlen1 = ReportLength(buf, 0) ]
    /\ pc' = "method2"
    /\ UNCHANGED << cfg, udevp, live, usbInit, opens, curDevice, call, result, xfer, fn >>

\* the condition under which the second method is not tried
SkipMethod2(vid, bcd) == (vid # EATON_VENDORID) /\ (bcd # EATON_BCD_V202)

\* the extra bytes of interface 0, altsetting 0 a device may carry
ExtraSamples ==
    { << >>, << 7, LIBUSB_DT_HID, 1, 1, 1, 1, 1 >>,
      << 9, LIBUSB_DT_HID, 1, 1, 1, 1, 1 >>,
      << 9, 48, 0, 0, 0, 0, 0, 3, 0 >>,
      << 0, LIBUSB_DT_HID, 0, 0, 0, 0, 0, 3, 0 >>,
      << 2, 48 >> \o HidDesc(3) }
    \cup { HidDesc(l) : l \in LenSamples }

\* SECOND METHOD, entry: skipped, or libusb_get_config_descriptor() fails, or
\* the scan of the extra bytes starts at i = 0
Method2Enter ==
    /\ pc = "method2"
    /\ IF SkipMethod2(curDevice.VendorID, curDevice.bcdDevice)
         THEN /\ pc' = "reconcile"
              /\ hist' = [ hist EXCEPT !.method2 = "skipped" ]
              /\ UNCHANGED cand
         ELSE /\ hist' = [ hist EXCEPT !.method2 = "tried" ]
              /\ \/ /\ UNCHANGED cand
                    /\ pc' = "reconcile"
                 \/ \E e \in ExtraSamples :
                    /\ cand' = [ cand EXCEPT !.extra = e, !.i = 0 ]
                    /\ pc' = "scan"
    /\ UNCHANGED << cfg, udevp, live, usbInit, opens, curDevice, call, result, xfer, fn >>

\* ScanTest that lets the scan run up to the last byte
ScanTest_ToLastByte(i, extra) == i <= Len(extra) - 1

\* the for loop's test: i <= if_desc->extra_length - 9
ScanTest(i, extra) == i <= Len(extra) - HID_DESC_SIZE

\* The offsets into extra (from 0, as in the code) that the turn at index i
\* reads: extra[i] and extra[i + 1] for the debug line and the two tests; when
\* both tests find a HID descriptor, the 9 bytes at hid_desc_ptr (the hex dump,
\* and hid_desc_ptr[7] and [8] for the length)
ScanReads(i, extra) ==
    LET hid == /\ i + 2 <= Len(extra)
               /\ extra[i + 1] >= HID_DESC_SIZE
               /\ extra[i + 2] = LIBUSB_DT_HID
    IN  { i, i + 1 } \cup (IF hid THEN i .. (i + 8) ELSE {})

\* one turn of the scan; `continue` runs i += if_desc->extra[i].  turns counts
\* the turns that ended in `continue`.
ScanStep ==
    /\ pc = "scan"
    /\ ScanTest(cand.i, cand.extra)
    /\ cand.turns < MaxScanTurns
    /\ LET len  == cand.extra[cand.i + 1]
           type == cand.extra[cand.i + 2]
       IN IF len < HID_DESC_SIZE \/ type # LIBUSB_DT_HID
            THEN /\ cand' = [ cand EXCEPT !.i = @ + len, !.turns = @ + 1 ]
                 /\ pc' = "scan"
            ELSE /\ cand' = [ cand EXCEPT !.got_rdlen2 = TRUE,
                                          !.rdlen2 = ReportLength(cand.extra, cand.i),
                                          !.extra = << >>, !.i = 0, !.turns = 0 ]
                 /\ pc' = "reconcile"
    /\ UNCHANGED << cfg, udevp, live, usbInit, opens, curDevice, call, hist, result, xfer, fn >>

\* the scan ran off the end; libusb_free_config_descriptor(conf_desc)
ScanEnd ==
    /\ pc = "scan"
    /\ ~ScanTest(cand.i, cand.extra)
    /\ cand' = [ cand EXCEPT !.extra = << >>, !.i = 0, !.turns = 0 ]
    /\ pc' = "reconcile"
    /\ UNCHANGED << cfg, udevp, live, usbInit, opens, curDevice, call, hist, result, xfer, fn >>

\* ChooseRdlen taking the larger value when the second method found one
ChooseRdlen_Max(got2, rdlen1, rdlen2) ==
    IF got2 /\ rdlen2 >= rdlen1 THEN rdlen2 ELSE rdlen1

\* rdlen = got_rdlen2 ? rdlen2 : rdlen1
ChooseRdlen(got2, rdlen1, rdlen2) == IF got2 THEN rdlen2 ELSE rdlen1

\* TooLong off by one
TooLong_OffByOne(rdlen) == rdlen > MAX_REPORT_SIZE + 1

\* rdlen > sizeof(rdbuf)
TooLong(rdlen) == rdlen > MAX_REPORT_SIZE

\* no length at all: skip; else choose the length; too long: skip
Reconcile ==
    /\ pc = "reconcile"
    /\ IF ~cand.got_rdlen1 /\ ~cand.got_rdlen2
         THEN /\ hist' = [ hist EXCEPT !.skip = "nohid" ]
              /\ pc' = "next_device"
              /\ UNCHANGED cand
         ELSE LET rdlen == ChooseRdlen(cand.got_rdlen2, cand.rdlen1, cand.rdlen2) IN
              /\ cand' = [ cand EXCEPT !.rdlen = rdlen ]
              /\ IF TooLong(rdlen)
                   THEN /\ hist' = [ hist EXCEPT !.skip = "toolong" ]
                        /\ pc' = "next_device"
                   ELSE /\ pc' = "fetch"
                        /\ UNCHANGED hist
    /\ UNCHANGED << cfg, udevp, live, usbInit, opens, curDevice, call, result, xfer, fn >>

\* what the report descriptor transfer of wLength n may return: an error, or
\* the number of bytes received (one short of n, all n)
FetchRets(n) == { LIBUSB_ERROR_IO } \cup { k \in { n - 1, n } : k >= 0 }

\* CorrectRdlen that never corrects
CorrectRdlen_Keep(rdlen, ret) == rdlen

\* `if (ret < rdlen) rdlen = ret;`
CorrectRdlen(rdlen, ret) == IF ret < rdlen THEN ret ELSE rdlen

\* the report descriptor is fetched into rdbuf
FetchReport ==
    /\ pc = "fetch"
    /\ \E ret \in FetchRets(cand.rdlen) :
        /\ hist' = [ hist EXCEPT
                       !.fetch = << DescriptorValue(LIBUSB_DT_REPORT, cand.hid_desc_index),
                                    cand.rdlen >>,
                       !.fetchRet = << ret >>,
                       !.skip = IF ret < 0 THEN "fetch" ELSE @ ]
        /\ IF ret < 0
             THEN /\ UNCHANGED cand
                  /\ pc' = "next_device"
             ELSE /\ cand' = [ cand EXCEPT !.rdlen = CorrectRdlen(@, ret) ]
                  /\ pc' = "callback"
    /\ UNCHANGED << cfg, udevp, live, usbInit, opens, curDevice, call, result, xfer, fn >>

\* what the caller's callback may return: it likes the device (1, or more),
\* does not (0), or reports an error of its own (-1)
CallbackRets == { 2, 1, 0, -1 }

\* CallbackRejects that rejects on 0 alone
CallbackRejects_Zero(ret) == ret = 0

\* `if (ret < 1)`: the caller does not like the device
CallbackRejects(ret) == ret < 1

\* ret = callback(udev, curDevice, rdbuf, rdlen)
Callback ==
    /\ pc = "callback"
    /\ \E ret \in CallbackRets :
        /\ hist' = [ hist EXCEPT !.cbLen = << cand.rdlen >>, !.cbRet = << ret >>,
                                 !.skip = IF CallbackRejects(ret) THEN "callback" ELSE @ ]
        /\ IF CallbackRejects(ret)
             THEN /\ pc' = "next_device"
                  /\ UNCHANGED << call, result >>
             ELSE /\ call' = [ call EXCEPT !.listFrees = @ + 1 ]
                  /\ result' = << LIBUSB_SUCCESS >>
                  /\ pc' = "return"
    /\ UNCHANGED << cfg, udevp, live, usbInit, opens, curDevice, cand, xfer, fn >>

(* ----------------------- open: the ways out ---------------------------- *)
\* next_device: libusb_close(udev); continue;
NextDevice ==
    /\ pc = "next_device"
    /\ live' = libusb_close(cand.udev, live)
    /\ call' = Continue(call)
    /\ cand' = CandInit
    /\ hist' = HistInit
    /\ pc' = "loop"
    /\ UNCHANGED << cfg, udevp, usbInit, opens, curDevice, result, xfer, fn >>

\* after the loop: *udevp = NULL; libusb_free_device_list(devlist, 1);
\* return LIBUSB_ERROR_NOT_FOUND.  When libusb_get_device_list() failed,
\* devlist was never set and releasing it is undefined: the process may crash
\* or go on.
Exhausted ==
    /\ pc = "exhausted"
    /\ udevp' = NULLDEV
    /\ call' = [ call EXCEPT !.listFrees = @ + 1 ]
    /\ \E crash \in BOOLEAN :
        /\ crash => call.listGets = 0
        /\ IF crash
             THEN /\ pc' = "exited"
                  /\ UNCHANGED result
             ELSE /\ result' = << LIBUSB_ERROR_NOT_FOUND >>
                  /\ pc' = "return"
    /\ UNCHANGED << cfg, live, usbInit, opens, curDevice, cand, hist, xfer, fn >>

\* open hands control back to its caller; its locals are gone
OpenReturn ==
    /\ pc = "return"
    /\ call' = CallInit
    /\ cand' = CandInit
    /\ hist' = HistInit
    /\ pc' = "idle"
    /\ UNCHANGED << cfg, udevp, live, usbInit, opens, curDevice, result, xfer, fn >>

(* -------------------------- transfer primitives ------------------------ *)
\* nut_usb_logerror: the code is logged on one of two channels and handed back
nut_usb_logerror(ret) ==
    IF ret >= 0 THEN ret
    ELSE IF ret \in { LIBUSB_ERROR_INVALID_PARAM, LIBUSB_ERROR_TIMEOUT }
    THEN ret
    ELSE ret

\* the byte counts a transfer into the caller's buffer may report
ByteCounts == { 0, 8 }

\* what a control or string transfer may return: an error, or a byte count
TransferRets ==
    { LIBUSB_ERROR_IO, LIBUSB_ERROR_TIMEOUT, LIBUSB_ERROR_PIPE } \cup ByteCounts

\* the caller passes the handle it was given by open (or NULL)
HandleUsable == udevp = NULLDEV \/ udevp \in live

\* GetReportResult without the stall case
GetReportResult_NoStall(ret) == nut_usb_logerror(ret)

\* nut_libusb_get_report, after the transfer returned ret
GetReportResult(ret) ==
    IF ret = LIBUSB_ERROR_PIPE THEN 0 ELSE nut_usb_logerror(ret)

\* nut_libusb_set_report, after the transfer returned ret
SetReportResult(ret) ==
    IF ret = LIBUSB_ERROR_PIPE THEN 0 ELSE nut_usb_logerror(ret)

GetReport ==
    /\ pc = "idle"
    /\ HandleUsable
    /\ IF udevp = NULLDEV
         THEN xfer' = [ XferInit EXCEPT !.op = "get_report",
                                        !.result = LIBUSB_ERROR_INVALID_PARAM ]
         ELSE \E ret \in TransferRets :
                xfer' = [ XferInit EXCEPT !.op = "get_report", !.udev = udevp,
                                          !.ret = ret, !.result = GetReportResult(ret) ]
    /\ UNCHANGED << cfg, pc, udevp, live, usbInit, opens, curDevice, call, cand, hist, result, fn >>

SetReport ==
    /\ pc = "idle"
    /\ HandleUsable
    /\ IF udevp = NULLDEV
         THEN xfer' = [ XferInit EXCEPT !.op = "set_report",
                                        !.result = LIBUSB_ERROR_INVALID_PARAM ]
         ELSE \E ret \in TransferRets :
                xfer' = [ XferInit EXCEPT !.op = "set_report", !.udev = udevp,
                                          !.ret = ret, !.result = SetReportResult(ret) ]
    /\ UNCHANGED << cfg, pc, udevp, live, usbInit, opens, curDevice, call, cand, hist, result, fn >>

\* nut_libusb_get_string
GetString ==
    /\ pc = "idle"
    /\ HandleUsable
    /\ IF udevp = NULLDEV
         THEN xfer' = [ XferInit EXCEPT !.op = "get_string",
                                        !.result = LIBUSB_ERROR_INVALID_PARAM ]
         ELSE \E ret \in TransferRets :
                xfer' = [ XferInit EXCEPT !.op = "get_string", !.udev = udevp,
                                          !.ret = ret, !.result = nut_usb_logerror(ret) ]
    /\ UNCHANGED << cfg, pc, udevp, live, usbInit, opens, curDevice, call, cand, hist, result, fn >>

\* what libusb_interrupt_transfer() may return (0 is LIBUSB_SUCCESS)
InterruptRets == { LIBUSB_SUCCESS, LIBUSB_ERROR_IO, LIBUSB_ERROR_TIMEOUT, LIBUSB_ERROR_PIPE }

\* what libusb_clear_halt() may return
ClearHaltRets == { LIBUSB_SUCCESS, LIBUSB_ERROR_IO, LIBUSB_ERROR_NOT_FOUND }

\* ClearedEndpoints that never clears a halt
ClearedEndpoints_None(ret) == << >>

\* the endpoints nut_libusb_get_interrupt clears the halt of, after the
\* transfer returned ret
ClearedEndpoints(ret) == IF ret = LIBUSB_ERROR_PIPE THEN << INTERRUPT_EP >> ELSE << >>

\* nut_libusb_get_interrupt: the transfer returned ret with `transferred`
\* bytes; clr is what libusb_clear_halt() returns if it is called
GetInterruptResult(ret, transferred, clr) ==
    IF ret = LIBUSB_SUCCESS THEN transferred
    ELSE IF ClearedEndpoints(ret) # << >> THEN nut_usb_logerror(clr)
    ELSE nut_usb_logerror(ret)

GetInterrupt ==
    /\ pc = "idle"
    /\ HandleUsable
    /\ IF udevp = NULLDEV
         THEN xfer' = [ XferInit EXCEPT !.op = "get_interrupt",
                                        !.result = LIBUSB_ERROR_INVALID_PARAM ]
         ELSE \E ret \in InterruptRets, transferred \in ByteCounts, clr \in ClearHaltRets :
                xfer' = [ op |-> "get_interrupt", udev |-> udevp, ret |-> ret,
                          clearHalt |-> ClearedEndpoints(ret),
                          clearRet |-> IF ClearedEndpoints(ret) # << >>
                                         THEN << clr >> ELSE << >>,
                          result |-> GetInterruptResult(ret, transferred, clr) ]
    /\ UNCHANGED << cfg, pc, udevp, live, usbInit, opens, curDevice, call, cand, hist, result, fn >>

(* -------------------------------- close -------------------------------- *)
\* nut_libusb_close(udev), called with the caller's handle; the caller's slot
\* is passed by value and keeps its value.  Closing a handle that is no longer
\* open is undefined: the process may crash or go on.
Close ==
    /\ pc = "idle"
    /\ IF udevp = NULLDEV
         THEN UNCHANGED << pc, live, usbInit >>
         ELSE \E crash \in BOOLEAN :
                /\ crash => udevp \notin live
                /\ live' = libusb_close(udevp, live)
                /\ usbInit' = libusb_exit(usbInit)
                /\ pc' = IF crash THEN "exited" ELSE "idle"
    /\ xfer' = [ XferInit EXCEPT !.op = "close", !.udev = udevp ]
    /\ UNCHANGED << cfg, udevp, opens, curDevice, call, cand, hist, result, fn >>

(* --------------------------- specification ----------------------------- *)
Next ==
    \/ OpenEnter \/ OpenGetList \/ LoopTest \/ GetDeviceDescriptor \/ OpenDevice
    \/ CollectIdentity \/ OomError \/ MatchNode \/ MatchDone
    \/ ClaimEnter \/ ClaimInterface \/ DetachKernelDriver \/ ClaimReturned
    \/ SetAltInterface \/ AltInterfaceReturned \/ CallbackTest
    \/ GetHidDescriptor \/ Method2Enter \/ ScanStep \/ ScanEnd \/ Reconcile
    \/ FetchReport \/ Callback \/ NextDevice \/ Exhausted \/ OpenReturn
    \/ GetReport \/ SetReport \/ GetString \/ GetInterrupt \/ Close

Spec == Init /\ [][Next]_vars

(* ------------------------------- claims -------------------------------- *)
\* the labels of open at which the current candidate's matching is over and it
\* passed
AfterMatchPcs ==
    { "claim", "claim_interface", "detach_kernel_driver", "claim_returned",
      "set_altinterface", "altinterface_returned", "callback_test",
      "hid_descriptor", "method2", "scan", "reconcile", "fetch", "callback" }

AllMatch(rets) == \A i \in 1..Len(rets) : rets[i] = 1

\* C1: a candidate passes matching, and goes on to the interface claim, if and
\* only if every node of the chain returned match (1); every node evaluated
\* before the last one returned match, so nothing is evaluated after the first
\* no-match or error; a no-match sends the candidate to next_device and a hard
\* error ends the process.
C1_MatchChain ==
    LET rets == hist.matchRets IN
    /\ Len(rets) <= call.matcherLen
    /\ \A i \in 1..(Len(rets) - 1) : rets[i] = 1
    /\ hist.verdict # "none" =>
         (hist.verdict = "pass" <=> (Len(rets) = call.matcherLen /\ AllMatch(rets)))
    /\ (pc \in AfterMatchPcs \/ hist.claimed) => hist.verdict = "pass"
    /\ hist.verdict = "skip" =>
         (pc = "next_device" /\ rets[Len(rets)] \in {0, -2} /\ ~hist.claimed)
    /\ hist.verdict = "fatal" =>
         (pc = "exited" /\ rets[Len(rets)] = -1 /\ ~hist.claimed)

\* C1 witness: the first node of a chain of two returned no-match and the
\* candidate was rejected with the second node never evaluated.
C1_Witness ==
    /\ call.matcherLen = 2
    /\ hist.matchRets = << 0 >>
    /\ hist.verdict = "skip"
    /\ pc = "next_device"

\* C2: a get or set feature report on a live handle whose control transfer
\* stalled (LIBUSB_ERROR_PIPE, -9) returns exactly 0.
C2_StallIsEmptySuccess ==
    (xfer.op \in {"get_report", "set_report"} /\ xfer.udev # NULLDEV
        /\ xfer.udev \in live /\ xfer.ret = -9)
    => xfer.result = 0

C2_Witness ==
    /\ xfer.op = "get_report"
    /\ xfer.udev \in live
    /\ xfer.ret = -9
    /\ xfer.result = 0

\* C3: the length asked for in the report descriptor fetch is the first
\* method's when only the first method found one, and the second method's
\* whenever the second method found one (alone, or with the first, equal or not).
C3_FetchLength ==
    hist.fetch # << >> =>
        /\ (cand.got_rdlen1 /\ ~cand.got_rdlen2) => hist.fetch[2] = cand.rdlen1
        /\ cand.got_rdlen2 => hist.fetch[2] = cand.rdlen2
        /\ cand.got_rdlen1 \/ cand.got_rdlen2

\* C3 witness: both methods found a length, the two differ, and the fetch was
\* issued with the second one.
C3_Witness ==
    /\ hist.fetch # << >>
    /\ cand.got_rdlen1 /\ cand.got_rdlen2
    /\ cand.rdlen1 > cand.rdlen2
    /\ hist.fetch[2] = cand.rdlen2

\* C4: a candidate whose chosen report length exceeds 6144 is skipped: it is at
\* next_device (its handle is closed and the loop goes on) with no report
\* descriptor fetch issued and the callback not called; no fetch is ever issued
\* for more than 6144 bytes.
C4_OversizeSkipped ==
    /\ cand.rdlen > 6144 =>
         /\ pc = "next_device"
         /\ hist.skip = "toolong"
         /\ hist.fetch = << >>
         /\ hist.cbRet = << >>
    /\ hist.fetch # << >> => hist.fetch[2] <= 6144

\* C4 witness: a candidate announcing 6145 bytes was skipped while another
\* candidate is still to be examined.
C4_Witness ==
    /\ cand.rdlen = 6145
    /\ pc = "next_device"
    /\ call.devnum + 1 < call.devcount

Min(a, b) == IF a < b THEN a ELSE b

\* C5: a fetch that returned a non-negative count does not reject the
\* candidate; the length the callback is given is min(requested, returned),
\* never more than what was returned.
C5_ShortFetch ==
    /\ (hist.fetchRet # << >> /\ hist.fetchRet[1] >= 0) =>
         (hist.skip # "fetch" /\ (pc = "callback" \/ hist.cbLen # << >>))
    /\ hist.cbLen # << >> =>
         /\ hist.fetchRet # << >> /\ hist.fetchRet[1] >= 0
         /\ hist.cbLen[1] = Min(hist.fetch[2], hist.fetchRet[1])
         /\ hist.cbLen[1] <= hist.fetchRet[1]

\* C5 witness: the fetch came back one byte short and the callback was given
\* the shorter length.
C5_Witness ==
    /\ hist.cbLen # << >>
    /\ hist.fetchRet[1] < hist.fetch[2]
    /\ hist.cbLen[1] = hist.fetchRet[1]

\* C6: with explicit detach compiled in, nut_usb_claim_interface makes at most
\* 4 claim attempts and 3 detach attempts, alternating (every step of the loop
\* raises one of the two counts, so the loop ends); it goes on only after a
\* failed claim, and what it returns is the result of its last claim attempt:
\* success, or after the fourth failure that failure's code.
C6_ClaimBounded ==
    (cfg.detach /\ pc \in {"claim_interface", "detach_kernel_driver", "claim_returned"}) =>
        /\ fn.claims <= 4
        /\ fn.detaches <= 3
        /\ pc = "claim_interface" =>
             (fn.claims = fn.detaches /\ (fn.claims > 0 => fn.lastClaim # 0))
        /\ pc = "detach_kernel_driver" =>
             (fn.claims = fn.detaches + 1 /\ fn.lastClaim # 0)
        /\ pc = "claim_returned" =>
             /\ fn.claims = fn.detaches + 1
             /\ cand.ret = fn.lastClaim
             /\ cand.ret # 0 => fn.claims = 4

\* C6 witness: four claims failed around three detach attempts and the code of
\* the fourth failure (busy, which no detach returns) is what is returned.
C6_Witness ==
    /\ cfg.detach
    /\ pc = "claim_returned"
    /\ fn.claims = 4 /\ fn.detaches = 3
    /\ cand.ret = LIBUSB_ERROR_BUSY

\* the candidate under examination has vendor id 0x463 and release code 0x0202
CandIsEaton202 ==
    /\ cand.device \in Pool
    /\ dev_desc(cand.device).idVendor = 1123
    /\ dev_desc(cand.device).bcdDevice = 514

\* the callback was called and returned an accept result (1 or more)
CallbackAccepted == hist.cbRet # << >> /\ hist.cbRet[1] >= 1

\* the callback was called and returned any other result
CallbackRejected == hist.cbRet # << >> /\ hist.cbRet[1] < 1

\* the descriptor sub-index carried by a GET_DESCRIPTOR request (low byte of wValue)
RequestIndex(request) == request[1] % 256

\* the sub-index of both requests is 1 for the 0x463/0x0202 candidate and 0 for
\* every other one, and the second method is tried on the 0x463/0x0202 candidate
C7_Index ==
    /\ hist.hidRequest # << >> =>
         RequestIndex(hist.hidRequest) = IF CandIsEaton202 THEN 1 ELSE 0
    /\ hist.fetch # << >> =>
         RequestIndex(hist.fetch) = IF CandIsEaton202 THEN 1 ELSE 0
    /\ (CandIsEaton202 /\ hist.method2 # "none") => hist.method2 = "tried"

\* the scenario of C7: the opened candidate is the 0x463/0x0202 one, the chain
\* is empty (so the candidate matched) and there is a callback
C7_Scenario ==
    /\ CandIsEaton202
    /\ cand.udev # NULLDEV
    /\ call.matcherLen = 0
    /\ call.hasCallback
    /\ hist.verdict = "pass"

C8_NotFound ==
    /\ hist.verdict = "skip" => (pc = "next_device" /\ hist.skip = "nomatch")
    /\ (pc = "return" /\ result = << -5 >>) =>
         /\ call.devnum >= call.devcount
         /\ udevp = NULLDEV
         /\ live = {}

\* C9 as stated: after a stalled interrupt transfer the halt of endpoint 0x81
\* is cleared once and the caller gets something no successful read returns
\* (a successful read returns a count >= 0).
C9_AsStated ==
    (xfer.op = "get_interrupt" /\ xfer.udev # NULLDEV /\ xfer.ret = -9) =>
        /\ xfer.clearHalt = << 129 >>
        /\ xfer.result < 0

\* C9, amended: after a stalled interrupt transfer the halt of endpoint 0x81 is
\* cleared once and what the caller gets is the status of that clear-halt call
\* (0 when it worked, its error code otherwise); no halt is cleared after any
\* other result, and a successful transfer returns the count transferred.
C9_StallCleared ==
    xfer.op = "get_interrupt" /\ xfer.udev # NULLDEV =>
        /\ xfer.ret = -9 =>
             /\ xfer.clearHalt = << 129 >>
             /\ Len(xfer.clearRet) = 1
             /\ xfer.result = xfer.clearRet[1]
        /\ xfer.ret # -9 => (xfer.clearHalt = << >> /\ xfer.clearRet = << >>)
        /\ (xfer.ret < 0 /\ xfer.ret # -9) => xfer.result = xfer.ret

\* C9 witness: the transfer stalled, the halt was cleared and the caller got 0.
C9_Witness ==
    /\ xfer.op = "get_interrupt"
    /\ xfer.ret = -9
    /\ xfer.clearHalt = << 129 >>
    /\ xfer.result = 0

\* the identity record holds nothing but what candidate d yields: its numeric
\* ids, its bus as three digits, and each string either NULL or d's own
IdentityFrom(d) ==
    LET desc == dev_desc(d)
        bus  == bus_number(d)
    IN  /\ curDevice.VendorID = desc.idVendor
        /\ curDevice.ProductID = desc.idProduct
        /\ curDevice.bcdDevice = desc.bcdDevice
        /\ Len(curDevice.Bus) = 3
        /\ 100 * curDevice.Bus[1] + 10 * curDevice.Bus[2] + curDevice.Bus[3] = bus
        /\ \/ curDevice.Vendor = NULLSTR
           \/ desc.iManufacturer # 0 /\ curDevice.Vendor = << d, desc.iManufacturer >>
        /\ \/ curDevice.Product = NULLSTR
           \/ desc.iProduct # 0 /\ curDevice.Product = << d, desc.iProduct >>
        /\ \/ curDevice.Serial = NULLSTR
           \/ desc.iSerialNumber # 0 /\ curDevice.Serial = << d, desc.iSerialNumber >>

\* C10: while the matchers are evaluated, and for the rest of the candidate's
\* examination up to a successful return, every field of the identity record
\* is NULL or comes from that candidate.
C10_IdentityFresh ==
    (pc \in AfterMatchPcs \cup { "match", "next_device" }
        \/ (pc = "return" /\ result = << 0 >>))
    => IdentityFrom(cand.device)

\* C10 witness: the second candidate of a list is being matched; its serial
\* number could not be read and its manufacturer string could.
C10_Witness ==
    /\ pc = "match"
    /\ call.devnum = 1
    /\ cand.device = 1
    /\ curDevice.Serial = NULLSTR
    /\ curDevice.Vendor # NULLSTR

\* C11: once close has run, no device handle is open and no libusb_init() is
\* left without its libusb_exit(); a close that follows a close closes no
\* handle, tears nothing down and ends nothing.
C11_CloseIdempotent ==
    /\ [](xfer.op = "close" => (live = {} /\ usbInit = 0))
    /\ [][(xfer.op = "close" /\ xfer'.op = "close")
            => UNCHANGED << live, usbInit, pc >>]_vars

\* C12: in an open call the device list is obtained once and released once:
\* it is never released more often than it was obtained, and on every way out
\* of the call that follows the enumeration (a return, or a fatal exit while a
\* candidate is examined) it has been obtained once and released once.
C12_ListOnce ==
    /\ call.listGets <= 1
    /\ call.listFrees <= call.listGets
    /\ pc = "return" => (call.listGets = 1 /\ call.listFrees = 1)
    /\ (pc = "exited" /\ cand.device # 0) => (call.listGets = 1 /\ call.listFrees = 1)

\* the labels of open inside nut_usb_claim_interface and at its return
ClaimPcs == { "claim", "claim_interface", "detach_kernel_driver", "claim_returned" }

C14_OneHandle == Cardinality(live) <= 1

\* the labels of open at which the current candidate is open: from its
\* identity read to its rejection
OpenedPcs ==
    AfterMatchPcs \cup { "identity", "oom_error", "match", "next_device" }

\* the handles opened by the running open call that are still open
OwnHandles == live \ call.entryLive

\* C15: while a candidate is examined its handle is the only one this call has
\* open, so every transfer of the call goes to an open handle and a rejected
\* candidate's handle is open (not yet closed) when next_device closes it;
\* between candidates and once the list is used up this call has no handle
\* open, so each rejected handle was closed before the next one is opened; the
\* caller gets the accepted candidate's open handle, or NULL with not-found.
C15_RejectedClosed ==
    /\ pc \in OpenedPcs => OwnHandles = { cand.udev }
    /\ pc \in { "loop", "get_device_descriptor", "open_device", "exhausted" }
         => OwnHandles = {}
    /\ (pc = "return" /\ result = << LIBUSB_SUCCESS >>)
         => (udevp = cand.udev /\ OwnHandles = { udevp })
    /\ (pc = "return" /\ result = << LIBUSB_ERROR_NOT_FOUND >>)
         => (udevp = NULLDEV /\ OwnHandles = {})

\* C15 witness: the first candidate was opened and rejected; the second one is
\* open, was rejected by the callback, and is the only handle open.
C15_Witness ==
    /\ pc = "next_device"
    /\ hist.skip = "callback"
    /\ call.devnum = 1
    /\ live = { cand.udev }

\* the step of a candidate's examination a label of open belongs to: 1 identity
\* read, 2 matcher evaluation, 3 interface claim, 4 alternate setting,
\* 5 descriptor discovery, 6 callback; 0 outside the examination
Stage(p) ==
    CASE p \in { "identity", "oom_error" }                        -> 1
      [] p = "match"                                               -> 2
      [] p \in ClaimPcs                                            -> 3
      [] p \in { "set_altinterface", "altinterface_returned" }     -> 4
      [] p \in { "callback_test", "hid_descriptor", "method2",
                 "scan", "reconcile", "fetch" }                   -> 5
      [] p = "callback"                                            -> 6
      [] OTHER                                                     -> 0

\* C16: a candidate's examination starts with the identity read, right after
\* the device was opened, and goes from a step to the same or the next step
\* only, on the same device and handle; the interface is claimed, and anything
\* later done, only when every matcher returned match; what was asked of the
\* device is in step order (claim, HID descriptor, report descriptor,
\* callback); the list index starts at 0, never goes back during a call, and is
\* one more each time the loop test is reached again.
C16_StepOrder ==
    /\ []( /\ Stage(pc) >= 3 =>
                /\ hist.verdict = "pass"
                /\ AllMatch(hist.matchRets)
                /\ Len(hist.matchRets) = call.matcherLen
           /\ fn.claims > 0 => (pc \in ClaimPcs /\ hist.verdict = "pass")
           /\ hist.claimed => (hist.verdict = "pass" /\ Stage(pc) # 3)
           /\ hist.hidRequest # << >> => hist.claimed
           /\ hist.fetch # << >> => hist.hidRequest # << >>
           /\ hist.cbRet # << >> => hist.fetch # << >>
           /\ Stage(pc) > 0 => call.devnum < call.devcount )
    /\ [][ /\ (Stage(pc) > 0 /\ Stage(pc') > 0) =>
                /\ Stage(pc') \in { Stage(pc), Stage(pc) + 1 }
                /\ cand'.device = cand.device
                /\ cand'.udev = cand.udev
                /\ call'.devnum = call.devnum
           /\ (Stage(pc) = 0 /\ Stage(pc') > 0) =>
                (pc = "open_device" /\ pc' = "identity")
           /\ pc' = "loop" =>
                \/ pc = "getlist" /\ call'.devnum = 0
                \/ call'.devnum = call.devnum + 1
           /\ pc # "return" => call'.devnum >= call.devnum ]_vars

\* C16 witness: the second candidate of the list, having passed a chain of two
\* matchers, been claimed and asked for both descriptors, is at the callback.
C16_Witness ==
    /\ pc = "callback"
    /\ call.devnum = 1
    /\ call.matcherLen = 2
    /\ hist.claimed
    /\ hist.fetch # << >>

\* C17: the second method is tried on the candidates with both vendor id 0x463
\* and release code 0x0202, and on no other: every other candidate skips it.
C17_Method2OnlyEaton202 ==
    hist.method2 # "none" => (hist.method2 = "tried" <=> CandIsEaton202)

\* C18: nut_usb_set_altinterface is entered once per claimed candidate, right
\* after the claim succeeded; it issues no request without the operator's
\* option and one request with it; and when it returns, whatever the option
\* and whatever the request returned, open goes on to the callback test and
\* descriptor discovery with nothing but the function's locals changed.
C18_AltSettingNeutral ==
    /\ []( /\ fn.altRequests <= 1
           /\ pc = "altinterface_returned" =>
                /\ fn.altRequests = IF fn.option THEN 1 ELSE 0
                /\ ~fn.option => cand.ret = LIBUSB_SUCCESS
                /\ hist.claimed )
    /\ [][ /\ pc' = "set_altinterface" => (pc = "claim_returned" /\ hist'.claimed)
           /\ pc = "set_altinterface" => pc' = "altinterface_returned"
           /\ pc = "altinterface_returned" =>
                /\ pc' = "callback_test"
                /\ cand' = [ cand EXCEPT !.ret = 0 ]
                /\ fn' = FnInit
                /\ UNCHANGED << udevp, live, usbInit, curDevice, call, hist, result >> ]_vars

\* C18 witness: the option was given, one request was issued and it failed.
C18_Witness ==
    /\ pc = "altinterface_returned"
    /\ fn.option
    /\ fn.altRequests = 1
    /\ cand.ret = LIBUSB_ERROR_IO

\* C19: once the callback has returned, an accept result (1 or more) has open
\* return success, the candidate's handle open and in the caller's slot, the
\* rest of the list not examined; any other result sends the candidate to
\* next_device, where its handle is closed and the scan goes on.  No result
\* of the callback leads to the fatal exit.
C19_CallbackVerdict ==
    /\ CallbackAccepted =>
         /\ pc = "return"
         /\ result = << LIBUSB_SUCCESS >>
         /\ udevp = cand.udev
         /\ udevp \in live
    /\ CallbackRejected =>
         /\ pc = "next_device"
         /\ hist.skip = "callback"
         /\ cand.udev \in live
    /\ hist.cbRet # << >> => pc # "exited"

\* C19 witness: the callback accepted the first of two candidates and open
\* returned success without examining the second.
C19_Witness ==
    /\ CallbackAccepted
    /\ pc = "return"
    /\ call.devnum = 0
    /\ call.devcount = 2

\* C20: the scan of the extra bytes terminates: each turn that does not stop
\* the scan moves the index forward by at least one byte, so the index is never
\* less than the number of turns taken.
C20_ScanAdvances == pc = "scan" => cand.turns <= cand.i

\* C21: the libusb_init() calls not yet matched by a libusb_exit() are never
\* more than one, and there is none once close has run.
C21_InitBalanced ==
    /\ usbInit <= 1
    /\ xfer.op = "close" => usbInit = 0

\* C22: the device list is released only if it was obtained.  When
\* libusb_get_device_list() returned a negative count, open examines no
\* candidate, releases no list, and leaves by returning not-found.
C22_ReleaseOnlyObtained ==
    call.devcount < 0 =>
        /\ call.listGets = 0
        /\ call.listFrees = 0
        /\ cand.device = 0
        /\ pc \in { "loop", "exhausted", "return" }
        /\ pc = "return" => result = << LIBUSB_ERROR_NOT_FOUND >>

\* C23: whenever a turn of the scan is about to run, every offset it reads
\* (the length byte at i, the type byte at i + 1, and for a HID descriptor the
\* bytes up to i + 8) is less than the length of the extra-byte region.
C23_ScanInBounds ==
    (pc = "scan" /\ ScanTest(cand.i, cand.extra)) =>
        \A k \in ScanReads(cand.i, cand.extra) : 0 <= k /\ k < Len(cand.extra)

\* C23 witness: a turn is about to read a HID descriptor that ends with the
\* last byte of the region, after a turn that moved the index forward.
C23_Witness ==
    /\ pc = "scan"
    /\ cand.i = 2
    /\ ScanTest(cand.i, cand.extra)
    /\ (Len(cand.extra) - 1) \in ScanReads(cand.i, cand.extra)

====
